---- MODULE Spec2Model ----
(***************************************************************************)
(* The "Dr. Aisha" chat page (DoctorBotPage.tsx): the useMedicalChat hook,   *)
(* the ChatInput box, the page's Book handler, and the keyword responder    *)
(* ChatService.sendMessage.                                                *)
(*                                                                         *)
(* A JavaScript string is modelled as a sequence of one-character strings, *)
(* so that toLowerCase, trim and includes are computed character by        *)
(* character.                                                              *)
(***************************************************************************)
EXTENDS Integers, Sequences, FiniteSets, TLC

(* ------------------------------ bounds ------------------------------- *)

\* Words per message drawn for the responder.
MaxWords == 3
\* Submissions made through the input box in one run of the page.
MaxSubmissions == 2
\* Book clicks in one run of the page.
MaxBooks == 1

(* ------------------------- JavaScript strings ------------------------ *)

UpperToLower ==
  [A |-> "a", B |-> "b", C |-> "c", D |-> "d", E |-> "e", F |-> "f", G |-> "g", H |-> "h",
   I |-> "i", J |-> "j", K |-> "k", L |-> "l", M |-> "m", N |-> "n", O |-> "o", P |-> "p",
   Q |-> "q", R |-> "r", S |-> "s", T |-> "t", U |-> "u", V |-> "v", W |-> "w", X |-> "x",
   Y |-> "y", Z |-> "z"]

\* String.prototype.toLowerCase, on the ASCII letters.
toLowerCase(s) ==
  [i \in 1..Len(s) |-> IF s[i] \in DOMAIN UpperToLower THEN UpperToLower[s[i]] ELSE s[i]]

\* String.prototype.includes: sub occurs in s as a contiguous substring.
includes(s, sub) ==
  \E i \in 0..(Len(s) - Len(sub)) : SubSeq(s, i + 1, i + Len(sub)) = sub

\* String.prototype.trim, on the space character.
RECURSIVE trimStart(_)
trimStart(s) == IF s # <<>> /\ Head(s) = " " THEN trimStart(Tail(s)) ELSE s

RECURSIVE trimEnd(_)
trimEnd(s) ==
  IF s # <<>> /\ s[Len(s)] = " " THEN trimEnd(SubSeq(s, 1, Len(s) - 1)) ELSE s

trim(s) == trimEnd(trimStart(s))

(* An optional value (T | null, or an optional field): <<>> or <<v>>. *)
None == <<>>
Some(v) == <<v>>

(* --------------------------- ChatService ----------------------------- *)

D_Cardiology == <<"C","a","r","d","i","o","l","o","g","y">>
D_Pulmonology == <<"P","u","l","m","o","n","o","l","o","g","y">>
D_Dermatology == <<"D","e","r","m","a","t","o","l","o","g","y">>
D_Gastroenterology == <<"G","a","s","t","r","o","e","n","t","e","r","o","l","o","g","y">>
D_Orthopedics == <<"O","r","t","h","o","p","e","d","i","c","s">>
D_Neurology == <<"N","e","u","r","o","l","o","g","y">>
D_Nephrology == <<"N","e","p","h","r","o","l","o","g","y">>
D_Urology == <<"U","r","o","l","o","g","y">>
D_Pediatrics == <<"P","e","d","i","a","t","r","i","c","s">>
D_Ophthalmology == <<"O","p","h","t","h","a","l","m","o","l","o","g","y">>
D_Gynecology == <<"G","y","n","e","c","o","l","o","g","y">>
D_Obstetrics == <<"O","b","s","t","e","t","r","i","c","s">>
D_Oncology == <<"O","n","c","o","l","o","g","y">>
D_Endocrinology == <<"E","n","d","o","c","r","i","n","o","l","o","g","y">>
D_ENT == <<"E","N","T">>
D_General_Medicine == <<"G","e","n","e","r","a","l"," ","M","e","d","i","c","i","n","e">>

\* The keyword -> department record, in declaration order (Object.entries
\* enumerates string keys in insertion order).
SYMPTOM_MAP ==
  << <<<<"h","e","a","r","t">>, D_Cardiology>>,  \* 'heart'
     <<<<"c","h","e","s","t"," ","p","a","i","n">>, D_Cardiology>>,  \* 'chest pain'
     <<<<"b","r","e","a","t","h">>, D_Pulmonology>>,  \* 'breath'
     <<<<"c","o","u","g","h">>, D_Pulmonology>>,  \* 'cough'
     <<<<"s","k","i","n">>, D_Dermatology>>,  \* 'skin'
     <<<<"r","a","s","h">>, D_Dermatology>>,  \* 'rash'
     <<<<"a","c","n","e">>, D_Dermatology>>,  \* 'acne'
     <<<<"s","t","o","m","a","c","h">>, D_Gastroenterology>>,  \* 'stomach'
     <<<<"d","i","g","e","s","t">>, D_Gastroenterology>>,  \* 'digest'
     <<<<"b","o","n","e">>, D_Orthopedics>>,  \* 'bone'
     <<<<"f","r","a","c","t","u","r","e">>, D_Orthopedics>>,  \* 'fracture'
     <<<<"j","o","i","n","t">>, D_Orthopedics>>,  \* 'joint'
     <<<<"n","e","r","v">>, D_Neurology>>,  \* 'nerv'
     <<<<"b","r","a","i","n">>, D_Neurology>>,  \* 'brain'
     <<<<"k","i","d","n","e","y">>, D_Nephrology>>,  \* 'kidney'
     <<<<"u","r","i","n","a","r","y">>, D_Urology>>,  \* 'urinary'
     <<<<"c","h","i","l","d">>, D_Pediatrics>>,  \* 'child'
     <<<<"b","a","b","y">>, D_Pediatrics>>,  \* 'baby'
     <<<<"e","y","e">>, D_Ophthalmology>>,  \* 'eye'
     <<<<"v","i","s","i","o","n">>, D_Ophthalmology>>,  \* 'vision'
     <<<<"l","a","d","y">>, D_Gynecology>>,  \* 'lady'
     <<<<"w","o","m","a","n">>, D_Gynecology>>,  \* 'woman'
     <<<<"p","r","e","g","n","a","n","t">>, D_Obstetrics>>,  \* 'pregnant'
     <<<<"c","a","n","c","e","r">>, D_Oncology>>,  \* 'cancer'
     <<<<"s","u","g","a","r">>, D_Endocrinology>>,  \* 'sugar'
     <<<<"d","i","a","b","e","t","e","s">>, D_Endocrinology>>,  \* 'diabetes'
     <<<<"e","n","t">>, D_ENT>>,  \* 'ent'
     <<<<"e","a","r">>, D_ENT>>,  \* 'ear'
     <<<<"n","o","s","e">>, D_ENT>>,  \* 'nose'
     <<<<"t","h","r","o","a","t">>, D_ENT>>,  \* 'throat'
     <<<<"f","e","v","e","r">>, D_General_Medicine>>,  \* 'fever'
     <<<<"c","o","l","d">>, D_General_Medicine>>,  \* 'cold'
     <<<<"f","l","u">>, D_General_Medicine>>,  \* 'flu'
     <<<<"h","e","a","d","a","c","h","e">>, D_General_Medicine>> >>  \* 'headache'

\* A Hospital of the directory, with the fields the responder reads: state,
\* location and the departments' names. name identifies the record.
Hospital(name, state, location, departments) ==
  [name |-> name, state |-> state, location |-> location, departments |-> departments]

\* The hospitals a directory (MOCK_HOSPITALS) is drawn from.
HospitalPool ==
  << Hospital("AIIMS", <<"D","e","l","h","i">>, <<"N","e","w"," ","D","e","l","h","i">>,
              <<D_Cardiology, D_Dermatology>>),
     Hospital("Max Saket", <<"D","e","l","h","i">>, <<"S","a","k","e","t">>,
              <<D_Cardiology>>),
     Hospital("KEM", <<"M","a","h","a","r","a","s","h","t","r","a">>, <<"M","u","m","b","a","i">>,
              << <<"D","E","R","M","A","T","O","L","O","G","Y">>, D_ENT >>),
     Hospital("Safdarjung", <<"D","e","l","h","i">>, <<"N","e","w"," ","D","e","l","h","i">>,
              << <<"S","k","i","n"," ","&"," ","D","e","r","m","a","t","o","l","o","g","y">> >>),
     Hospital("Apollo", <<"U","t","t","a","r"," ","P","r","a","d","e","s","h">>,
              <<"D","e","l","h","i"," ","N","C","R">>,
              << D_Dermatology, <<"D","e","n","t","a","l">> >>),
     Hospital("Venkateshwar", <<"D","e","l","h","i">>, <<"D","w","a","r","k","a">>,
              <<D_Dermatology, D_Cardiology>>) >>

\* Array.prototype.slice(from, to) with 0 <= from <= to.
slice(s, from, to) ==
  SubSeq(s, from + 1, IF to < Len(s) THEN to ELSE Len(s))

\* [...new Set(xs)]: the first occurrence of each element, in order.
uniq(xs) ==
  LET isFirst(i) == \A j \in 1..(i - 1) : xs[j] # xs[i]
      kept       == SelectSeq([i \in 1..Len(xs) |-> i], isFirst)
  IN  [k \in 1..Len(kept) |-> xs[kept[k]]]

\* 1. Check for Emergency.
isEmergency(lowerMsg) ==
  \/ includes(lowerMsg, <<"e","m","e","r","g","e","n","c","y">>)
  \/ includes(lowerMsg, <<"a","c","c","i","d","e","n","t">>)
  \/ includes(lowerMsg, <<"a","m","b","u","l","a","n","c","e">>)
  \/ includes(lowerMsg, <<"b","l","e","e","d","i","n","g">>)

\* 2. The for..of loop over Object.entries(SYMPTOM_MAP), from entry i on: the
\* first key the message includes sets detectedDept and breaks.
RECURSIVE detectDeptFrom(_, _)
detectDeptFrom(lowerMsg, i) ==
  IF i > Len(SYMPTOM_MAP) THEN None
  ELSE IF includes(lowerMsg, SYMPTOM_MAP[i][1]) THEN Some(SYMPTOM_MAP[i][2])
  ELSE detectDeptFrom(lowerMsg, i + 1)

\* The same loop without its break: the last key the message includes wins.
detectDept_noBreak(lowerMsg) ==
  LET hits == {i \in 1..Len(SYMPTOM_MAP) : includes(lowerMsg, SYMPTOM_MAP[i][1])}
  IN  IF hits = {} THEN None
      ELSE Some(SYMPTOM_MAP[CHOOSE i \in hits : \A j \in hits : j <= i][2])

detectDept(lowerMsg) == detectDeptFrom(lowerMsg, 1)

\* 3. allLocations: every hospital's state, then every hospital's location,
\* without duplicates.
allLocations(dir) ==
  uniq([i \in 1..Len(dir) |-> dir[i].state] \o [i \in 1..Len(dir) |-> dir[i].location])

\* The known locations the message includes, then the three hard-coded aliases.
locationsInMsg(lowerMsg, dir) ==
  LET known(loc) == includes(lowerMsg, toLowerCase(loc))
  IN  SelectSeq(allLocations(dir), known)
      \o (IF includes(lowerMsg, <<"d","e","l","h","i">>)
            THEN << <<"D","e","l","h","i">> >> ELSE <<>>)
      \o (IF includes(lowerMsg, <<"m","u","m","b","a","i">>)
            THEN << <<"M","a","h","a","r","a","s","h","t","r","a">> >> ELSE <<>>)
      \o (IF \/ includes(lowerMsg, <<"b","a","n","g","a","l","o","r","e">>)
             \/ includes(lowerMsg, <<"b","e","n","g","a","l","u","r","u">>)
            THEN << <<"K","a","r","n","a","t","a","k","a">> >> ELSE <<>>)

\* h.departments.some(d => d.name.toLowerCase().includes(dept.toLowerCase()))
hasDepartment(h, dept) ==
  \E k \in 1..Len(h.departments) :
    includes(toLowerCase(h.departments[k]), toLowerCase(dept))

\* locs.some(loc => h.state includes loc || h.location includes loc), lower-cased.
inLocations(h, locs) ==
  \E k \in 1..Len(locs) :
    \/ includes(toLowerCase(h.state), toLowerCase(locs[k]))
    \/ includes(toLowerCase(h.location), toLowerCase(locs[k]))

\* The location filter taken as a filter on the state alone.
relevantHospitals_stateOnly(dept, locs, dir) ==
  LET byDept(h) == hasDepartment(h, dept)
      byLoc(h)  == \E k \in 1..Len(locs) :
                     includes(toLowerCase(h.state), toLowerCase(locs[k]))
  IN  IF Len(locs) > 0 THEN SelectSeq(SelectSeq(dir, byDept), byLoc)
      ELSE SelectSeq(dir, byDept)

\* The department filter with the location filter left out.
relevantHospitals_noLocation(dept, locs, dir) ==
  LET byDept(h) == hasDepartment(h, dept)
  IN  SelectSeq(dir, byDept)

\* 4. Filter Hospitals by department, then by location if any was detected.
relevantHospitals(dept, locs, dir) ==
  LET byDept(h) == hasDepartment(h, dept)
      byLoc(h)  == inLocations(h, locs)
  IN  IF Len(locs) > 0 THEN SelectSeq(SelectSeq(dir, byDept), byLoc)
      ELSE SelectSeq(dir, byDept)

\* The reply texts. A text is its template's name and the values spliced
\* into it: the department, and the first detected location if there is one.
EmergencyText == [kind |-> "EMERGENCY", dept |-> None, near |-> None]
FoundText(dept, locs) ==
  [kind |-> "FOUND", dept |-> Some(dept),
   near |-> IF Len(locs) > 0 THEN Some(locs[1]) ELSE None]
NotFoundText(dept) == [kind |-> "NOT_FOUND", dept |-> Some(dept), near |-> None]
FallbackText == [kind |-> "FALLBACK", dept |-> None, near |-> None]

\* A ChatResponse; suggestedHospitals and action are optional fields.
ChatResponse(text, suggestedHospitals, action) ==
  [text |-> text, suggestedHospitals |-> suggestedHospitals, action |-> action]

\* The department branch of sendMessage.
departmentResponse(dept, locs, dir) ==
  LET topHospitals == slice(relevantHospitals(dept, locs, dir), 0, 3)
  IN  IF Len(topHospitals) > 0
        THEN ChatResponse(FoundText(dept, locs), Some(topHospitals), None)
        ELSE ChatResponse(NotFoundText(dept), None, None)

\* sendMessage with the emergency check made after the department branch.
sendMessage_deptFirst(message, language, dir) ==
  LET lowerMsg     == toLowerCase(message)
      detectedDept == detectDept(lowerMsg)
      locs         == locationsInMsg(lowerMsg, dir)
  IN  IF detectedDept # None THEN departmentResponse(detectedDept[1], locs, dir)
      ELSE IF isEmergency(lowerMsg)
        THEN ChatResponse(EmergencyText, None, Some("AMBULANCE_DISPATCH"))
      ELSE ChatResponse(FallbackText, None, None)

\* The value ChatService.sendMessage(message, language) resolves to, over the
\* directory dir. language is not read.
sendMessage(message, language, dir) ==
  LET lowerMsg     == toLowerCase(message)
      detectedDept == detectDept(lowerMsg)
      locs         == locationsInMsg(lowerMsg, dir)
  IN  IF isEmergency(lowerMsg)
        THEN ChatResponse(EmergencyText, None, Some("AMBULANCE_DISPATCH"))
      ELSE IF detectedDept # None THEN departmentResponse(detectedDept[1], locs, dir)
      ELSE ChatResponse(FallbackText, None, None)

(* ------------------------------- state ------------------------------- *)

VARIABLES
  messages,    \* useMedicalChat: the Message list
  isLoading,   \* useMedicalChat: the loading flag
  error,       \* useMedicalChat: string | null
  language,    \* DoctorBotPage: the selected display language
  input,       \* ChatInput: the text in the box
  pending,     \* the ChatService.sendMessage calls awaited and not yet settled
  navigated,   \* the calls made to the onNavigate prop, in order
  dispatched,  \* the events dispatched on window, in order
  onNavigate,  \* whether the parent passed the onNavigate prop
  directory,   \* MOCK_HOSPITALS
  nextSub,     \* history: the number the next submission gets
  stale,       \* history: the submissions made before the latest reset
  books,       \* history: the number of Book Token clicks so far
  lastOp,      \* history: the latest operation of the hook or Book click
  svcMsg,      \* responder harness: the message of a direct call
  svcLang,     \* responder harness: its language code
  svcResp      \* responder harness: what the call resolved to, once it has

vars ==
  <<messages, isLoading, error, language, input, pending, navigated, dispatched,
    onNavigate, directory, nextSub, stale, books, lastOp, svcMsg, svcLang, svcResp>>

pageVars ==
  <<messages, isLoading, error, language, input, pending, navigated, dispatched,
    onNavigate, nextSub, stale, books, lastOp>>

svcVars == <<svcMsg, svcLang, svcResp>>

Languages == {"en", "hi", "hinglish"}

\* A Message; sub is history: the submission it belongs to.
Message(role, content, suggestions, sub) ==
  [role |-> role, content |-> content, suggestions |-> suggestions, sub |-> sub]

Op(op, sub, hospital) == [op |-> op, sub |-> sub, hospital |-> hospital]

\* What the user types into the box: blank text, text with spaces around it,
\* and an emergency.
TypedTexts ==
  { <<" ", " ">>,
    <<" ","s","k","i","n"," ","D","e","l","h","i"," ">>,
    <<"B","l","e","e","d","i","n","g">> }

\* What a rejected responder call is rejected with: an Error with a message,
\* an Error with an empty message, or a value that is no Error.
Rejections ==
  { [isError |-> TRUE, message |-> "Network down"],
    [isError |-> TRUE, message |-> ""],
    [isError |-> FALSE, message |-> ""] }

InitPage ==
  /\ messages = <<>>
  /\ isLoading = FALSE
  /\ error = None
  /\ language = "en"
  /\ input = <<>>
  /\ pending = {}
  /\ navigated = <<>>
  /\ dispatched = <<>>
  /\ nextSub = 1
  /\ stale = {}
  /\ books = 0
  /\ lastOp = Op("init", 0, None)

Init ==
  /\ InitPage
  /\ onNavigate \in BOOLEAN
  /\ directory = HospitalPool
  /\ svcMsg = <<>>
  /\ svcLang = "en"
  /\ svcResp = None

(* An event handler and a promise continuation each run to completion, and *)
(* React re-renders after a discrete event before the next one is handled:   *)
(* every handler below is one step, and it reads the latest state and props. *)

(* ------------------------------ ChatInput ----------------------------- *)

\* A page on which the box is never disabled.
disabled_never == FALSE

\* The disabled prop the page passes to ChatInput: disabled={isLoading}.
disabled == isLoading

\* onChange of the textarea, which is disabled with the box.
onChange(text) ==
  /\ ~disabled
  /\ input' = text
  /\ UNCHANGED <<messages, isLoading, error, language, pending, navigated,
                 dispatched, onNavigate, directory, nextSub, stale, lastOp, books, svcVars>>

(* --------------------------- useMedicalChat --------------------------- *)

\* sendMessage up to its await, without setError(null).
sendMessage_start_keepError(userMessage) ==
  /\ messages' = Append(messages, Message("user", userMessage, None, nextSub))
  /\ isLoading' = TRUE
  /\ error' = error
  /\ pending' = pending \cup
       {[sub |-> nextSub, userMessage |-> userMessage, language |-> language]}
  /\ nextSub' = nextSub + 1

\* sendMessage(userMessage, language) up to its await: the user message is
\* appended, loading set, the error cleared, and the responder called.
sendMessage_start(userMessage) ==
  /\ messages' = Append(messages, Message("user", userMessage, None, nextSub))
  /\ isLoading' = TRUE
  /\ error' = None
  /\ pending' = pending \cup
       {[sub |-> nextSub, userMessage |-> userMessage, language |-> language]}
  /\ nextSub' = nextSub + 1

\* ChatInput.handleSend (button click, or Enter without Shift): sends the
\* trimmed text through onSend and empties the box.
handleSend ==
  /\ trim(input) # <<>>
  /\ ~disabled
  /\ nextSub <= MaxSubmissions
  /\ sendMessage_start(trim(input))
  /\ input' = <<>>
  /\ lastOp' = Op("handleSend", nextSub, None)
  /\ UNCHANGED <<language, navigated, dispatched, onNavigate, directory, stale, books, svcVars>>

\* sendMessage after its await, the call p having resolved: the assistant
\* message is appended, then the finally block clears loading.
resolved(p) ==
  /\ p \in pending
  /\ LET response == sendMessage(p.userMessage, p.language, directory)
     IN  messages' = Append(messages,
           Message("assistant", response.text, response.suggestedHospitals, p.sub))
  /\ isLoading' = FALSE
  /\ pending' = pending \ {p}
  /\ lastOp' = Op("resolved", p.sub, None)
  /\ UNCHANGED <<error, language, input, navigated, dispatched, onNavigate,
                 directory, nextSub, stale, books, svcVars>>

\* The catch block taken as undoing the submission: the user message goes too.
rejected_rollback(p, e) ==
  /\ p \in pending
  /\ messages' = SelectSeq(messages, LAMBDA m : m.sub # p.sub)
  /\ error' = Some(IF e.isError THEN e.message
                   ELSE "Something went wrong. Please try again.")
  /\ isLoading' = FALSE
  /\ pending' = pending \ {p}
  /\ lastOp' = Op("rejected", p.sub, None)
  /\ UNCHANGED <<language, input, navigated, dispatched, onNavigate,
                 directory, nextSub, stale, books, svcVars>>

\* The rejection handled without the finally block: loading stays set.
rejected_noFinally(p, e) ==
  /\ p \in pending
  /\ error' = Some(IF e.isError THEN e.message
                   ELSE "Something went wrong. Please try again.")
  /\ pending' = pending \ {p}
  /\ lastOp' = Op("rejected", p.sub, None)
  /\ UNCHANGED <<messages, isLoading, language, input, navigated, dispatched, onNavigate,
                 directory, nextSub, stale, books, svcVars>>

\* sendMessage after its await, the call p having been rejected with e: the
\* catch block sets the error, then the finally block clears loading.
rejected(p, e) ==
  /\ p \in pending
  /\ error' = Some(IF e.isError THEN e.message
                   ELSE "Something went wrong. Please try again.")
  /\ isLoading' = FALSE
  /\ pending' = pending \ {p}
  /\ lastOp' = Op("rejected", p.sub, None)
  /\ UNCHANGED <<messages, language, input, navigated, dispatched, onNavigate,
                 directory, nextSub, stale, books, svcVars>>

\* clearChat taken as clearing the error too.
clearChat_andError ==
  /\ Len(messages) > 0
  /\ messages' = <<>>
  /\ error' = None
  /\ stale' = 1..(nextSub - 1)
  /\ lastOp' = Op("clearChat", 0, None)
  /\ UNCHANGED <<isLoading, language, input, pending, navigated, dispatched,
                 onNavigate, directory, nextSub, books, svcVars>>

\* clearChat, from the Reset Chat button, which is rendered while the list is
\* not empty.
clearChat ==
  /\ Len(messages) > 0
  /\ messages' = <<>>
  /\ stale' = 1..(nextSub - 1)
  /\ lastOp' = Op("clearChat", 0, None)
  /\ UNCHANGED <<isLoading, error, language, input, pending, navigated, dispatched,
                 onNavigate, directory, nextSub, books, svcVars>>

\* clearError, which the hook returns; the page wires it to no control.
clearError ==
  /\ error' = None
  /\ lastOp' = Op("clearError", 0, None)
  /\ UNCHANGED <<messages, isLoading, language, input, pending, navigated,
                 dispatched, onNavigate, directory, nextSub, stale, books, svcVars>>

(* ---------------------------- DoctorBotPage --------------------------- *)

\* LanguageSelector's onChange: setLanguage(code).
setLanguage(code) ==
  /\ language' = code
  /\ UNCHANGED <<messages, isLoading, error, input, pending, navigated, dispatched,
                 onNavigate, directory, nextSub, stale, lastOp, books, svcVars>>

\* The hospitals with a Book Token button: the suggestions of the assistant
\* messages on display.
Bookable ==
  UNION { { messages[i].suggestions[1][k] : k \in 1..Len(messages[i].suggestions[1]) } :
          i \in { j \in 1..Len(messages) : /\ messages[j].role = "assistant"
                                           /\ messages[j].suggestions # None } }

\* handleBook taken as dispatching the window event whether or not the
\* onNavigate prop is there.
handleBook_alwaysDispatch(hospital) ==
  /\ hospital \in Bookable
  /\ books < MaxBooks
  /\ navigated' = IF onNavigate THEN Append(navigated, <<"BOOKING", hospital>>)
                  ELSE navigated
  /\ dispatched' = Append(dispatched, <<"navigate-to-booking", hospital>>)
  /\ books' = books + 1
  /\ lastOp' = Op("handleBook", 0, Some(hospital))
  /\ UNCHANGED <<messages, isLoading, error, language, input, pending, onNavigate,
                 directory, nextSub, stale, svcVars>>

\* handleBook(hospital), from a card's Book Token button.
handleBook(hospital) ==
  /\ hospital \in Bookable
  /\ books < MaxBooks
  /\ IF onNavigate
       THEN /\ navigated' = Append(navigated, <<"BOOKING", hospital>>)
            /\ dispatched' = dispatched
       ELSE /\ dispatched' = Append(dispatched, <<"navigate-to-booking", hospital>>)
            /\ navigated' = navigated
  /\ books' = books + 1
  /\ lastOp' = Op("handleBook", 0, Some(hospital))
  /\ UNCHANGED <<messages, isLoading, error, language, input, pending, onNavigate,
                 directory, nextSub, stale, svcVars>>

Next ==
  \/ \E text \in TypedTexts : onChange(text)
  \/ handleSend
  \/ \E p \in pending : resolved(p)
  \/ \E p \in pending, e \in Rejections : rejected(p, e)
  \/ clearChat
  \/ clearError
  \/ \E code \in Languages : setLanguage(code)
  \/ \E i \in 1..Len(directory) : handleBook(directory[i])

Spec == Init /\ [][Next]_vars

\* A pending responder call settles: its promise resolves after the 800 ms
\* timer, or is rejected.
settle ==
  \/ \E p \in pending, e \in Rejections : rejected(p, e)
  \/ \E p \in pending : resolved(p)

\* The page with every pending responder call settling in the end.
SpecSettling == Init /\ [][Next]_vars /\ WF_vars(settle)

(* -------------------------- responder harness ------------------------- *)

\* The words a message to the responder is made of.
Words ==
  { <<"S","k","i","n">>, <<"D","e","l","h","i">>, <<"h","e","a","r","t">>,
    <<"B","l","e","e","d","i","n","g">>, <<"m","u","m","b","a","i">>,
    <<"p","a","t","i","e","n","t">> }

RECURSIVE join(_)
join(ws) ==
  IF ws = <<>> THEN <<>>
  ELSE IF Len(ws) = 1 THEN ws[1]
  ELSE ws[1] \o <<" ">> \o join(Tail(ws))

\* The messages of at most MaxWords words, a space between two words.
ServiceMessages ==
  { join(ws) : ws \in UNION { [1..n -> Words] : n \in 0..MaxWords } }

\* The directories: the hospitals of the pool, any of them left out.
Directories ==
  { SelectSeq(HospitalPool, LAMBDA h : \E i \in S : HospitalPool[i] = h) :
      S \in SUBSET (1..Len(HospitalPool)) }

InitResponder ==
  /\ InitPage
  /\ onNavigate = FALSE
  /\ directory \in Directories
  /\ svcMsg \in ServiceMessages
  /\ svcLang = "en"
  /\ svcResp = None

\* A direct call ChatService.sendMessage(svcMsg), language left to its default
\* 'en', resolved.
callService ==
  /\ svcResp = None
  /\ svcResp' = Some(sendMessage(svcMsg, svcLang, directory))
  /\ UNCHANGED <<pageVars, directory, svcMsg, svcLang>>

NextResponder == callService

SpecResponder == InitResponder /\ [][NextResponder]_vars

(* ------------------------- claims: the session ------------------------ *)

\* The messages of submission sub with the given role.
MessagesOf(msgs, sub, role) ==
  { i \in 1..Len(msgs) : msgs[i].sub = sub /\ msgs[i].role = role }

\* C1: after a reset the message list is empty, and from then on the list
\* holds no assistant reply to a submission made before that reset.
C1_NoReplyFromBeforeReset ==
  /\ lastOp.op = "clearChat" => messages = <<>>
  /\ \A i \in 1..Len(messages) :
       messages[i].role = "assistant" => messages[i].sub \notin stale

\* C2 as stated: right after a reset, the message list is empty and the error
\* is null.
C2_ResetEmptiesMessagesAndError ==
  lastOp.op = "clearChat" => messages = <<>> /\ error = None

\* C2 as amended: a reset empties the message list and leaves the error and
\* the loading flag as they were.
C2_ResetEmptiesMessagesOnly ==
  [][lastOp'.op = "clearChat" =>
       /\ messages' = <<>>
       /\ error' = error
       /\ isLoading' = isLoading]_vars

\* C2 witness: a reset has just been made and the error of a failed
\* submission is still there.
C2_Witness ==
  lastOp.op = "clearChat" /\ messages = <<>> /\ error # None

C4_AtMostOneInFlight == Cardinality(pending) <= 1

\* C4 witness: a second submission is in flight, the first having settled.
C4_Witness ==
  Cardinality(pending) = 1 /\ \E p \in pending : p.sub = 2

\* C5: the error changes only in a submit, a clearError or the handling of a
\* rejection; a submit and a clearError leave it null, and a reset, a language
\* switch and a Book leave it as it was.
C5_ErrorLifetime ==
  [][/\ error' # error =>
          /\ lastOp' # lastOp
          /\ lastOp'.op \in {"handleSend", "clearError", "rejected"}
     /\ lastOp'.op \in {"handleSend", "clearError"} => error' = None
     /\ (language' # language \/ books' # books \/ lastOp'.op = "clearChat") =>
          error' = error]_vars

\* C5 witness: the error of a failed submission has outlived a Book click.
C5_Witness ==
  lastOp.op = "handleBook" /\ error # None

\* C10: a Book click on hospital h makes exactly one notification carrying h:
\* the call onNavigate('BOOKING', h) and no event when the prop is there,
\* else one 'navigate-to-booking' event; messages, loading, error and
\* language stay as they were.
C10_BookNotifiesOnce ==
  [][books' # books =>
       /\ lastOp'.op = "handleBook"
       /\ IF onNavigate
            THEN /\ navigated' = Append(navigated, <<"BOOKING", lastOp'.hospital[1]>>)
                 /\ dispatched' = dispatched
            ELSE /\ dispatched' =
                      Append(dispatched, <<"navigate-to-booking", lastOp'.hospital[1]>>)
                 /\ navigated' = navigated
       /\ UNCHANGED <<messages, isLoading, error, language>>]_vars

\* C10 witness: a Book click has been made on a page with the onNavigate
\* prop, while a later submission is in flight.
C10_Witness ==
  lastOp.op = "handleBook" /\ onNavigate /\ Len(navigated) = 1 /\ isLoading

(* ------------------------ claims: the responder ----------------------- *)

\* The message of the direct call, lower-cased, and what the call resolved to.
Lower == toLowerCase(svcMsg)
Resolved == svcResp # None
Reply == svcResp[1]

\* The suggestions attached to the reply; none attached is the empty list.
Suggestions ==
  IF Reply.suggestedHospitals = None THEN <<>> ELSE Reply.suggestedHospitals[1]

ContainsAnyCase(text, word) == includes(toLowerCase(text), toLowerCase(word))

EmergencyKeywords ==
  { <<"e","m","e","r","g","e","n","c","y">>, <<"a","c","c","i","d","e","n","t">>,
    <<"a","m","b","u","l","a","n","c","e">>, <<"b","l","e","e","d","i","n","g">> }

HasEmergencyKeyword(lower) == \E kw \in EmergencyKeywords : includes(lower, kw)

\* The positions, in declaration order, of the mapped keywords in the message.
KeywordHits(lower) ==
  { i \in 1..Len(SYMPTOM_MAP) : includes(lower, SYMPTOM_MAP[i][1]) }

\* The department of the earliest-declared keyword among hits.
EarliestDept(hits) ==
  SYMPTOM_MAP[CHOOSE i \in hits : \A j \in hits : i <= j][2]

\* C6: a message with an emergency keyword, in any letter case, gets the fixed
\* emergency text with action AMBULANCE_DISPATCH and no suggested hospitals,
\* whatever department or location keywords it also holds.
C6_EmergencyWins ==
  (Resolved /\ HasEmergencyKeyword(Lower)) =>
    /\ Reply.text = EmergencyText
    /\ Reply.action = Some("AMBULANCE_DISPATCH")
    /\ Reply.suggestedHospitals = None

\* C6 witness: a resolved call whose message holds "Bleeding" next to a
\* department keyword and a location.
C6_Witness ==
  /\ Resolved
  /\ includes(svcMsg, <<"B","l","e","e","d","i","n","g">>)
  /\ includes(Lower, <<"s","k","i","n">>)
  /\ includes(Lower, <<"d","e","l","h","i">>)

HasDermatology(h) ==
  \E k \in 1..Len(h.departments) : ContainsAnyCase(h.departments[k], D_Dermatology)

InDelhi(h) ==
  \/ ContainsAnyCase(h.state, <<"D","e","l","h","i">>)
  \/ ContainsAnyCase(h.location, <<"D","e","l","h","i">>)

SkinAndDelhi(lower) ==
  includes(lower, <<"s","k","i","n">>) /\ includes(lower, <<"d","e","l","h","i">>)

\* C7 as stated: for a message with "skin" and "delhi", every suggestion has a
\* Dermatology department and a region or locality containing "Delhi", and
\* there are at most 3, whatever else the message holds.
C7_SkinDelhiAnyWords ==
  (Resolved /\ SkinAndDelhi(Lower)) =>
    LET suggested == Suggestions
    IN  /\ Len(suggested) <= 3
        /\ \A k \in 1..Len(suggested) :
             HasDermatology(suggested[k]) /\ InDelhi(suggested[k])

\* A keyword declared before 'skin' occurs in the message.
EarlierKeywordThanSkin(lower) ==
  \E i \in 1..Len(SYMPTOM_MAP) :
    /\ \A j \in 1..i : SYMPTOM_MAP[j][1] # <<"s","k","i","n">>
    /\ includes(lower, SYMPTOM_MAP[i][1])

\* The message names a place other than Delhi: one of the aliases of another
\* region, or a region or locality of the directory that does not contain
\* "delhi".
OtherPlaceNamed(lower) ==
  \/ includes(lower, <<"m","u","m","b","a","i">>)
  \/ includes(lower, <<"b","a","n","g","a","l","o","r","e">>)
  \/ includes(lower, <<"b","e","n","g","a","l","u","r","u">>)
  \/ \E i \in 1..Len(directory) :
       \E place \in {directory[i].state, directory[i].location} :
         /\ includes(lower, toLowerCase(place))
         /\ ~ContainsAnyCase(place, <<"d","e","l","h","i">>)

\* C7 as amended: for a message with "skin" and "delhi" there are at most 3
\* suggestions, and, when the message holds no keyword declared before
\* 'skin' and names no place other than Delhi, every suggestion has a
\* department whose name contains "dermatology" and a region or locality
\* containing "delhi", letter case ignored.
C7_SkinDelhiAlone ==
  (Resolved /\ SkinAndDelhi(Lower)) =>
    LET lower     == Lower
        suggested == Suggestions
    IN  /\ Len(suggested) <= 3
        /\ (~EarlierKeywordThanSkin(lower) /\ ~OtherPlaceNamed(lower)) =>
             \A k \in 1..Len(suggested) :
               HasDermatology(suggested[k]) /\ InDelhi(suggested[k])

\* C7 witness: "skin" and "delhi" alone, over a directory with more than
\* three Dermatology hospitals in Delhi and one elsewhere: three are suggested.
C7_Witness ==
  /\ Resolved
  /\ LET lower == Lower
     IN  /\ SkinAndDelhi(lower)
         /\ ~EarlierKeywordThanSkin(lower)
         /\ ~OtherPlaceNamed(lower)
         /\ ~HasEmergencyKeyword(lower)
  /\ Len(Suggestions) = 3
  /\ Cardinality({ i \in 1..Len(directory) :
                     HasDermatology(directory[i]) /\ InDelhi(directory[i]) }) > 3
  /\ \E i \in 1..Len(directory) :
       HasDermatology(directory[i]) /\ ~InDelhi(directory[i])

\* The directory positions of the hospitals C8 describes: a department whose
\* name contains dept and, if a location was detected, a region or locality
\* containing one of the detected locations locs, letter case ignored.
Qualifying(dept, locs) ==
  { i \in 1..Len(directory) :
      /\ \E k \in 1..Len(directory[i].departments) :
           ContainsAnyCase(directory[i].departments[k], dept)
      /\ \/ Len(locs) = 0
         \/ \E l \in 1..Len(locs) :
              \/ ContainsAnyCase(directory[i].state, locs[l])
              \/ ContainsAnyCase(directory[i].location, locs[l]) }

\* The k-th position of the set q, in directory order.
Nth(q, k) == CHOOSE i \in q : Cardinality({ j \in q : j < i }) = k - 1

\* C8: with a department detected and no emergency keyword, the suggestions
\* are the first three qualifying hospitals in directory order; if there is
\* none, no suggestions are attached.
C8_FirstThreeInOrder ==
  Resolved =>
    LET lower     == Lower
        dept      == detectDept(lower)
        q         == Qualifying(dept[1], locationsInMsg(lower, directory))
        suggested == Suggestions
    IN  (~HasEmergencyKeyword(lower) /\ dept # None) =>
          /\ Len(suggested) = (IF Cardinality(q) < 3 THEN Cardinality(q) ELSE 3)
          /\ \A k \in 1..Len(suggested) : suggested[k] = directory[Nth(q, k)]
          /\ (q = {}) <=> (Reply.suggestedHospitals = None)

\* C8 witness: a location was detected, more than three hospitals qualify and
\* one that does not stands before the third that does.
C8_Witness ==
  /\ Resolved
  /\ LET lower == Lower
         dept  == detectDept(lower)
         locs  == locationsInMsg(lower, directory)
         q     == Qualifying(dept[1], locs)
     IN  /\ ~HasEmergencyKeyword(lower)
         /\ dept # None
         /\ Len(locs) > 0
         /\ Cardinality(q) > 3
         /\ Len(Suggestions) = 3
         /\ \E i \in 1..Len(directory) : i \notin q /\ i < Nth(q, 3)

FallbackReply == ChatResponse(FallbackText, None, None)

\* C9 as stated: the detected department is that of the earliest-declared
\* keyword in the message; with no keyword in it, none is detected and the
\* reply is the fallback reply.
C9_FirstKeywordOrFallback ==
  Resolved =>
    LET lower == Lower
        hits  == KeywordHits(lower)
        dept  == detectDept(lower)
    IN  /\ hits # {} => dept = Some(EarliestDept(hits))
        /\ hits = {} => dept = None /\ Reply = FallbackReply

\* C9 as amended: the same, the fallback reply being returned when the
\* message holds no mapped keyword and no emergency keyword either; without
\* an emergency keyword the reply names the detected department.
C9_FirstKeywordOrFallbackUnlessEmergency ==
  Resolved =>
    LET lower     == Lower
        hits      == KeywordHits(lower)
        dept      == detectDept(lower)
        emergency == HasEmergencyKeyword(lower)
    IN  /\ hits # {} => dept = Some(EarliestDept(hits))
        /\ (hits # {} /\ ~emergency) => Reply.text.dept = Some(EarliestDept(hits))
        /\ hits = {} => dept = None
        /\ (hits = {} /\ ~emergency) => Reply = FallbackReply

\* C9 witness: a resolved call whose message holds 'skin' before 'heart',
\* the later-declared keyword first.
C9_Witness ==
  /\ Resolved
  /\ includes(Lower, <<"s","k","i","n"," ","h","e","a","r","t">>)
  /\ Reply.text.dept = Some(D_Cardiology)

(* ------------------------- claims: the loading flag ------------------- *)

\* C11: the loading flag is set exactly while a responder call is pending,
\* and, the calls settling, a set loading flag is cleared in the end, after a
\* resolved call and after a rejected one alike.
C11_LoadingWhilePending ==
  /\ [](isLoading <=> pending # {})
  /\ [][pending' # pending /\ pending' = {} => ~isLoading']_vars
  /\ isLoading ~> ~isLoading

\* C11 witness: the second submission has been rejected, after a reset, and
\* loading is cleared with no call left pending.
C11_Witness ==
  /\ lastOp = Op("rejected", 2, None)
  /\ stale # {}
  /\ ~isLoading
  /\ pending = {}

====
